---- MODULE Spec2Model ----
(***************************************************************************)
(* Mind-map layout generator and collapse/expand engine of the video      *)
(* summarizer: generateMindMapData (hierarchical layout) and the MindMap  *)
(* React component (nodes/edges state, the [summary] effect, the toggle   *)
(* handler that the effect stores in the node data).                      *)
(***************************************************************************)
EXTENDS Integers, Sequences, FiniteSets, TLC

(***************************************************************************)
(* Generic helpers for arrays and object spread.                          *)
(***************************************************************************)

\* { ...base, ...over } of JavaScript: fields of over win.
Spread(base, over) ==
  [f \in (DOMAIN base) \cup (DOMAIN over) |->
      IF f \in DOMAIN over THEN over[f] ELSE base[f]]

\* the value of reading a property that an object does not have
Undefined == "undefined"

\* obj.f of JavaScript: undefined when the object has no such property
Prop(obj, f) == IF f \in DOMAIN obj THEN obj[f] ELSE Undefined

\* the set of elements of an array
Range(s) == {s[i] : i \in 1..Len(s)}

RECURSIVE MaxOf(_)
\* Math.max(...values) over a non-empty finite set of integers
MaxOf(S) ==
  LET x == CHOOSE v \in S : TRUE
  IN IF S = {x} THEN x
     ELSE LET m == MaxOf(S \ {x}) IN IF x > m THEN x ELSE m

(***************************************************************************)
(* Input hierarchies (SummaryResult).  A topic is                         *)
(*   [title, keyPoints : array of strings, subtopics : array of topics].  *)
(***************************************************************************)

\* number of key points of the large topic of the sample hierarchies
NumKeyPoints == 2

\* key point texts (labels need not be distinct)
PointTexts == << "point 1", "point 2", "point 3", "point 4", "point 5", "point 6" >>

KeyPointTexts(n) == [k \in 1..n |-> PointTexts[k]]

SubtopicOf(title, n) ==
  [title |-> title, keyPoints |-> KeyPointTexts(n), subtopics |-> <<>>]

TopicOf(title, n, subs) ==
  [title |-> title, keyPoints |-> KeyPointTexts(n), subtopics |-> subs]

\* one topic, key points and one subtopic with one key point
HierSingle ==
  [tldr |-> "single",
   topics |-> << TopicOf("A", NumKeyPoints, << SubtopicOf("A.1", 1) >>) >>]

\* two topics: A with one key point and one subtopic (one key point), B with one key point
HierPair ==
  [tldr |-> "pair",
   topics |-> << TopicOf("P", 1, << SubtopicOf("P.1", 1) >>),
                 TopicOf("Q", 1, << >>) >>]

\* one topic with a single key point and no subtopics
HierFlat ==
  [tldr |-> "flat", topics |-> << TopicOf("F", 1, << >>) >>]

Hierarchies == {HierSingle, HierPair, HierFlat}

\* the summary prop: <<>> for null, <<h>> for the SummaryResult h
NoSummary == <<>>

(***************************************************************************)
(* generateMindMapData, hierarchical layout.                              *)
(* Ids are the template strings of the source, kept as tuples:            *)
(*   'center' = <<"center">>, `topic-${i}` = <<"topic", i>>,              *)
(*   `kp-${i}-${k}` = <<"kp", i, k>>, `sub-${i}-${s}` = <<"sub", i, s>>,  *)
(*   `skp-${i}-${s}-${k}` = <<"skp", i, s, k>>,                           *)
(*   `edge-${source}-${target}` = <<"edge", source, target>>.             *)
(* Indices are the zero-based array indices of the source.                *)
(***************************************************************************)

xStepTopic == 300
xStepSubtopic == 250
xStepKeypoint == 200
yPadding == 40
yStepNode == 50
keypointXOffset == 20

centerId == <<"center">>

\* faulty variant: the edge id is built from the source alone
EdgeIdFromSource(source, target) == <<"edge", source, source>>

EdgeId(source, target) == <<"edge", source, target>>

\* faulty variant: the edge points from the child to the parent
MkEdgeReversed(source, target) ==
  [id |-> EdgeId(source, target), source |-> target, target |-> source]

MkEdge(source, target) ==
  [id |-> EdgeId(source, target), source |-> source, target |-> target]

MkNode(id, type, label, x, y) ==
  [id |-> id, type |-> type, data |-> [label |-> label],
   position |-> [x |-> x, y |-> y]]

RECURSIVE SumSeq(_)
SumSeq(s) == IF s = <<>> THEN 0 ELSE Head(s) + SumSeq(Tail(s))

\* subtopicTotalHeight: per subtopic its own node and its key points
SubtopicTotalHeight(topic) ==
  SumSeq([s \in 1..Len(topic.subtopics) |->
            yStepNode + Len(topic.subtopics[s].keyPoints) * yStepNode])

\* branchHeight = yStepNode + max(keypointTotalHeight, subtopicTotalHeight)
BranchHeight(topic) ==
  LET keypointTotalHeight == Len(topic.keyPoints) * yStepNode
      subtopicTotalHeight == SubtopicTotalHeight(topic)
  IN yStepNode + (IF keypointTotalHeight > subtopicTotalHeight
                  THEN keypointTotalHeight ELSE subtopicTotalHeight)

\* faulty variant: the key-point nodes of a topic are pushed without their edges
TopicKeyPointsWithoutEdges(topic, ti, topicY) ==
  LET topicKeypointX == xStepTopic + xStepSubtopic
  IN [nodes |-> [k \in 1..Len(topic.keyPoints) |->
                   MkNode(<<"kp", ti, k - 1>>, "keypoint", topic.keyPoints[k],
                          topicKeypointX + keypointXOffset,
                          topicY + (k - 1) * yStepNode)],
      edges |-> <<>>]

\* the key-point nodes and edges of a topic; keypointBranchY starts at topicY
TopicKeyPoints(topic, ti, topicY) ==
  LET topicId == <<"topic", ti>>
      topicKeypointX == xStepTopic + xStepSubtopic
  IN [nodes |-> [k \in 1..Len(topic.keyPoints) |->
                   MkNode(<<"kp", ti, k - 1>>, "keypoint", topic.keyPoints[k],
                          topicKeypointX + keypointXOffset,
                          topicY + (k - 1) * yStepNode)],
      edges |-> [k \in 1..Len(topic.keyPoints) |->
                   MkEdge(topicId, <<"kp", ti, k - 1>>)]]

RECURSIVE TopicSubtopics(_, _, _, _)
\* subtopics from index s on (1-based), subtopicBranchY as left by the earlier ones
TopicSubtopics(topic, ti, s, subtopicBranchY) ==
  IF s > Len(topic.subtopics) THEN [nodes |-> <<>>, edges |-> <<>>]
  ELSE
    LET topicId == <<"topic", ti>>
        subtopic == topic.subtopics[s]
        subtopicId == <<"sub", ti, s - 1>>
        subtopicX == xStepTopic + xStepSubtopic
        subKeypointX == subtopicX + xStepKeypoint
        afterNode == subtopicBranchY + yStepNode
        n == Len(subtopic.keyPoints)
        kpNodes == [k \in 1..n |->
                      MkNode(<<"skp", ti, s - 1, k - 1>>, "keypoint",
                             subtopic.keyPoints[k],
                             subKeypointX + keypointXOffset,
                             afterNode + (k - 1) * yStepNode)]
        kpEdges == [k \in 1..n |-> MkEdge(subtopicId, <<"skp", ti, s - 1, k - 1>>)]
        \* node, then per key point: node and edge pushed alternately
        rest == TopicSubtopics(topic, ti, s + 1,
                               afterNode + n * yStepNode + (yPadding \div 2))
    IN [nodes |-> << MkNode(subtopicId, "subtopic", Prop(subtopic, "title"),
                            subtopicX, subtopicBranchY) >>
                  \o kpNodes \o rest.nodes,
        edges |-> << MkEdge(topicId, subtopicId) >> \o kpEdges \o rest.edges]

RECURSIVE GenTopics(_, _, _)
\* summary.topics.forEach from index t on (1-based) with the running topicStartY
GenTopics(topics, t, topicStartY) ==
  IF t > Len(topics) THEN [nodes |-> <<>>, edges |-> <<>>]
  ELSE
    LET topic == topics[t]
        ti == t - 1
        topicId == <<"topic", ti>>
        topicY == topicStartY
        kps == TopicKeyPoints(topic, ti, topicY)
        subs == TopicSubtopics(topic, ti, 1, topicY)
        rest == GenTopics(topics, t + 1,
                          topicStartY + BranchHeight(topic) + yPadding)
    IN [nodes |-> << MkNode(topicId, "topic", Prop(topic, "title"), xStepTopic, topicY) >>
                  \o kps.nodes \o subs.nodes \o rest.nodes,
        edges |-> << MkEdge(centerId, topicId) >>
                  \o kps.edges \o subs.edges \o rest.edges]

\* faulty variant: the re-centering offset is applied to the center node always
CenterNodeShifted(y) ==
  Spread(MkNode(centerId, "topic", "Video Summary", 0, y - (yStepNode \div 2)),
         [style |-> [width |-> 180, height |-> 50,
                     fontSize |-> "1.1em", fontWeight |-> "bold"]])

\* the center node: type 'topic', label 'Video Summary', at the origin, with a style
CenterNode(y) ==
  Spread(MkNode(centerId, "topic", "Video Summary", 0, y),
         [style |-> [width |-> 180, height |-> 50,
                     fontSize |-> "1.1em", fontWeight |-> "bold"]])

\* faulty variant: the center node is pushed after the topics instead of first
generateMindMapDataCenterLast(summary) ==
  LET body == GenTopics(summary.topics, 1, 0 + yStepNode)
  IN [nodes |-> body.nodes \o << CenterNode(0) >>,
      edges |-> body.edges]

generateMindMapData(summary) ==
  LET body == GenTopics(summary.topics, 1, 0 + yStepNode)
      firstTopicY == body.nodes[1].position.y
      lastNodeY == MaxOf({body.nodes[i].position.y + yStepNode :
                             i \in 1..Len(body.nodes)}
                         \cup {0 + yStepNode})
      centerY == IF Len(body.nodes) > 0
                 THEN (firstTopicY + ((lastNodeY - firstTopicY) \div 2))
                      - (yStepNode \div 2)
                 ELSE 0
  IN [nodes |-> << CenterNode(centerY) >> \o body.nodes,
      edges |-> body.edges]

(***************************************************************************)
(* The MindMap component.                                                  *)
(*   summary      the summary prop (NoSummary for null, else <<h>>)        *)
(*   nodes, edges the useNodesState / useEdgesState arrays                 *)
(*   handlerEdges the `edges` array closed over by the handleToggleCollapse*)
(*                instance that the [summary] effect stored in the node    *)
(*                data: the effect belongs to the render in which summary  *)
(*                changed, so the instance it stores is the one of that    *)
(*                render, whose `edges` is the state before the effect's   *)
(*                setEdges; the effect does not run again until summary    *)
(*                changes, so the nodes keep that instance                 *)
(*   lastOp       the operation that produced the state                    *)
(*   before       the nodes and edges that operation started from          *)
(*   genArg       the argument of a direct call of generateMindMapData      *)
(*   genResult    what that call produced (NotCalled before the call)       *)
(*   call         a function of the source called on its own: its inputs,   *)
(*                its local variables and its result                        *)
(*   storage      localStorage['video-summarizer-api-config']: <<>> or <<c>> *)
(*   index        the state of the Index page                               *)
(*   panel        the state of the ApiKeyConfiguration panel                *)
(*   tests        the connection tests in flight                            *)
(*   submit       the video submission in flight, <<>> when there is none   *)
(*   sent         the network requests made by the last step                *)
(***************************************************************************)
VARIABLES summary, nodes, edges, handlerEdges, lastOp, before,
          genArg, genResult, call,
          storage, index, panel, tests, submit, sent

componentVars == <<summary, nodes, edges, handlerEdges, lastOp, before>>

genVars == <<genArg, genResult, call>>

\* no function is being called on its own
NoCall == [fn |-> "none"]

apiVars == <<storage, index, panel, tests, submit, sent>>

\* the state outside the MindMap component
otherVars == <<genVars, apiVars>>

vars == <<componentVars, otherVars>>

\* genResult before generateMindMapData was called
NotCalled == [status |-> "not called", nodes |-> <<>>, edges |-> <<>>]

NoId == <<"none">>

CollapsibleTypes == {"topic", "subtopic"}

\* processedNodes of the effect: not hidden, not collapsed, flag and handler by type
ProcessNode(n) ==
  Spread(n,
    [hidden |-> FALSE,
     data |-> Spread(n.data,
        [isCollapsed |-> FALSE,
         isCollapsible |-> n.type \in CollapsibleTypes,
         onToggleCollapse |-> IF n.type \in CollapsibleTypes
                              THEN "handleToggleCollapse" ELSE "undefined",
         nodeId |-> n.id])])

\* processedEdges of the effect
ProcessEdge(e) == Spread(e, [hidden |-> FALSE])

RECURSIVE PushTargets(_, _)
\* childEdges.forEach: push edge.target unless the stack includes it
PushTargets(stack, childEdges) ==
  IF childEdges = <<>> THEN stack
  ELSE LET t == Head(childEdges).target
       IN PushTargets(IF t \in Range(stack) THEN stack ELSE Append(stack, t),
                      Tail(childEdges))

RECURSIVE Traverse(_, _, _, _, _)
\* the while (head < stack.length) loop; head is 1-based here
Traverse(stack, head, nodesToUpdate, edgesToUpdate, currentEdges) ==
  IF head > Len(stack)
  THEN [nodesToUpdate |-> nodesToUpdate, edgesToUpdate |-> edgesToUpdate,
        stack |-> stack]
  ELSE LET currentId == stack[head]
           childEdges == SelectSeq(currentEdges, LAMBDA e : e.source = currentId)
       IN Traverse(PushTargets(stack, childEdges), head + 1,
                   nodesToUpdate \cup {currentId},
                   edgesToUpdate \cup {e.id : e \in Range(childEdges)},
                   currentEdges)

\* the traversal of toggleDescendants: the toggled node, its direct children, the loop
Descendants(nodeId, currentEdges) ==
  LET directChildrenEdges == SelectSeq(currentEdges, LAMBDA e : e.source = nodeId)
  IN Traverse(PushTargets(<<nodeId>>, directChildrenEdges), 2, {},
              {e.id : e \in Range(directChildrenEdges)}, currentEdges)

\* faulty variant of the node update: writes hidden: true whatever `hide` is
UpdateNodeAlwaysHides(node, hide) ==
  LET newIsCollapsed == IF hide THEN node.data.isCollapsed ELSE FALSE
  IN Spread(node, [hidden |-> TRUE,
                   data |-> Spread(node.data, [isCollapsed |-> newIsCollapsed])])

\* the node update of toggleDescendants
UpdateNode(node, hide) ==
  LET newIsCollapsed == IF hide THEN node.data.isCollapsed ELSE FALSE
  IN Spread(node, [hidden |-> hide,
                   data |-> Spread(node.data, [isCollapsed |-> newIsCollapsed])])

toggleDescendants(nodeId, hide, currentNodes, currentEdges) ==
  LET d == Descendants(nodeId, currentEdges)
  IN [updatedNodes |->
        [i \in 1..Len(currentNodes) |->
           IF currentNodes[i].id \in d.nodesToUpdate
           THEN UpdateNode(currentNodes[i], hide) ELSE currentNodes[i]],
      updatedEdges |->
        [i \in 1..Len(currentEdges) |->
           IF currentEdges[i].id \in d.edgesToUpdate
           THEN Spread(currentEdges[i], [hidden |-> hide]) ELSE currentEdges[i]]]

\* handleToggleCollapse as an instance that closed over closureEdges
handleToggleCollapse(nodeId, isCurrentlyCollapsed, prevNodes, closureEdges) ==
  LET toggledNodes ==
        [i \in 1..Len(prevNodes) |->
           IF prevNodes[i].id = nodeId
           THEN Spread(prevNodes[i],
                  [data |-> Spread(prevNodes[i].data,
                                   [isCollapsed |-> ~isCurrentlyCollapsed])])
           ELSE prevNodes[i]]
      r == toggleDescendants(nodeId, ~isCurrentlyCollapsed, toggledNodes, closureEdges)
  IN [nodes |-> r.updatedNodes, edges |-> r.updatedEdges]

(***************************************************************************)
(* API key configuration, connection test and video submission:            *)
(* the storage functions and requests of the API service, the              *)
(* ApiKeyConfiguration panel and the Index page.                           *)
(***************************************************************************)

Providers == {"openai", "gemini"}

ApiKeys == {"key-1", "key-2"}

\* ApiKeyConfig
Configs == [provider : Providers, apiKey : ApiKeys]

\* getApiKey() returning null
NoConfig == <<>>

\* a request that carries no API key
NoKey == <<>>

NoSubmit == <<>>

\* the video ids a URL in the form can name
VideoIds == {"video-1", "video-2"}

\* connection tests in flight at the same time
MaxInFlight == 2

\* a request as it leaves the browser: the host, the API key it carries (in a
\* header or in the query string) and what it asks for
Request(host, key, kind) == [host |-> host, key |-> key, kind |-> kind]

\* the request testApiConnection makes for a config (none for an unknown provider)
testApiConnection(config) ==
  IF config.provider = "openai"
  THEN << Request("api.openai.com", <<config.apiKey>>, "test") >>
  ELSE IF config.provider = "gemini"
  THEN << Request("generativelanguage.googleapis.com", <<config.apiKey>>, "test") >>
  ELSE << >>

\* the request of fetchVideoDetails
fetchVideoDetails == << Request("noembed.com", NoKey, "details") >>

\* the request of YoutubeTranscript.fetchTranscript in fetchVideoTranscript
fetchVideoTranscript == << Request("www.youtube.com", NoKey, "transcript") >>

generateOpenAISummary(apiKey) ==
  << Request("api.openai.com", <<apiKey>>, "summary") >>

generateGeminiSummary(apiKey) ==
  << Request("generativelanguage.googleapis.com", <<apiKey>>, "summary") >>

\* faulty variant: the provider branches are exchanged
generateSummaryExchanged(apiConfig) ==
  IF apiConfig.provider = "openai" THEN generateGeminiSummary(apiConfig.apiKey)
  ELSE IF apiConfig.provider = "gemini" THEN generateOpenAISummary(apiConfig.apiKey)
  ELSE << >>

\* the provider request of generateSummary, made once the transcript is there
generateSummary(apiConfig) ==
  IF apiConfig.provider = "openai" THEN generateOpenAISummary(apiConfig.apiKey)
  ELSE IF apiConfig.provider = "gemini" THEN generateGeminiSummary(apiConfig.apiKey)
  ELSE << >>

\* the panel while it is not rendered; also the useState defaults of a mount
UnmountedPanel ==
  [mounted |-> FALSE, provider |-> "openai", apiKey |-> "",
   storedConfig |-> NoConfig, isTesting |-> FALSE, connectionStatus |-> "untested"]

\* handleConfigChange of the Index page
handleConfigChange(idx, isValid) ==
  [idx EXCEPT !.hasValidConfig = isValid,
              !.showApiConfig = IF isValid THEN @ ELSE TRUE]

\* testConnection started by the mounted panel: a test in flight
StartedTest(config, initialLoad, save) ==
  [config |-> config, initialLoad |-> initialLoad, save |-> save, live |-> TRUE]

\* a mount of the panel and its initial-load effect
MountPanel(st, idx, ts) ==
  IF st # NoConfig
  THEN [panel |-> [UnmountedPanel EXCEPT !.mounted = TRUE,
                                         !.provider = st[1].provider,
                                         !.storedConfig = st,
                                         !.isTesting = TRUE],
        index |-> idx,
        tests |-> Append(ts, StartedTest(st[1], TRUE, FALSE)),
        sent |-> testApiConnection(st[1])]
  ELSE [panel |-> [UnmountedPanel EXCEPT !.mounted = TRUE],
        index |-> handleConfigChange(idx, FALSE),
        tests |-> ts,
        sent |-> << >>]

\* the panel is rendered while showApiConfig || !hasValidConfig
PanelShown(idx) == idx.showApiConfig \/ ~idx.hasValidConfig

\* the render after a change of the Index state: the panel is mounted (its effect
\* runs) or unmounted (its tests in flight outlive it) as PanelShown changes
Render(st, idx, pnl, ts) ==
  IF PanelShown(idx) /\ ~pnl.mounted THEN MountPanel(st, idx, ts)
  ELSE IF ~PanelShown(idx) /\ pnl.mounted
  THEN [panel |-> UnmountedPanel, index |-> idx,
        tests |-> [i \in 1..Len(ts) |-> [ts[i] EXCEPT !.live = FALSE]],
        sent |-> << >>]
  ELSE [panel |-> pnl, index |-> idx, tests |-> ts, sent |-> << >>]

\* the array s without its element i
RemoveAt(s, i) == [j \in 1..(Len(s) - 1) |-> IF j < i THEN s[j] ELSE s[j + 1]]

\* the provider radio group
SelectProvider(p) ==
  /\ panel.mounted
  /\ panel.storedConfig = NoConfig
  /\ ~panel.isTesting
  /\ p # panel.provider
  /\ panel' = [panel EXCEPT !.provider = p]
  /\ sent' = << >>
  /\ UNCHANGED <<storage, index, tests, submit, componentVars, genVars>>

\* the API key input
TypeKey(k) ==
  /\ panel.mounted
  /\ panel.storedConfig = NoConfig
  /\ ~panel.isTesting
  /\ k # panel.apiKey
  /\ panel' = [panel EXCEPT !.apiKey = k]
  /\ sent' = << >>
  /\ UNCHANGED <<storage, index, tests, submit, componentVars, genVars>>

\* handleSave up to the await of testConnection (button Save & Test)
ClickSave ==
  LET config == [provider |-> panel.provider, apiKey |-> panel.apiKey]
  IN /\ panel.mounted
     /\ panel.storedConfig = NoConfig
     /\ panel.apiKey # ""
     /\ ~panel.isTesting
     /\ Len(tests) < MaxInFlight
     /\ panel' = [panel EXCEPT !.isTesting = TRUE, !.connectionStatus = "untested"]
     /\ tests' = Append(tests, StartedTest(config, FALSE, TRUE))
     /\ sent' = testApiConnection(config)
     /\ UNCHANGED <<storage, index, submit, componentVars, genVars>>

\* testConnection(storedConfig) up to its await (button Test Connection)
ClickTest ==
  /\ panel.mounted
  /\ panel.storedConfig # NoConfig
  /\ ~panel.isTesting
  /\ Len(tests) < MaxInFlight
  /\ panel' = [panel EXCEPT !.isTesting = TRUE, !.connectionStatus = "untested"]
  /\ tests' = Append(tests, StartedTest(panel.storedConfig[1], FALSE, FALSE))
  /\ sent' = testApiConnection(panel.storedConfig[1])
  /\ UNCHANGED <<storage, index, submit, componentVars, genVars>>

\* handleDelete (button Remove API Key)
ClickRemove ==
  /\ panel.mounted
  /\ panel.storedConfig # NoConfig
  /\ ~panel.isTesting
  /\ storage' = NoConfig
  /\ panel' = [panel EXCEPT !.storedConfig = NoConfig, !.apiKey = "",
                            !.connectionStatus = "untested"]
  /\ index' = handleConfigChange(index, FALSE)
  /\ sent' = << >>
  /\ UNCHANGED <<tests, submit, componentVars, genVars>>

\* faulty variant: handleSave stores the config whatever the test returned
TestRespondsSavingAlways(i, isConnected) ==
  LET t == tests[i]
      saved == t.save
      st == IF saved THEN << t.config >> ELSE storage
      pnl == IF ~t.live THEN panel
             ELSE [panel EXCEPT
                     !.connectionStatus = IF isConnected THEN "success" ELSE "failed",
                     !.isTesting = FALSE,
                     !.storedConfig = IF saved THEN << t.config >> ELSE @,
                     !.apiKey = IF saved THEN "" ELSE @]
      r == Render(st, handleConfigChange(index, isConnected), pnl, RemoveAt(tests, i))
  IN /\ storage' = st
     /\ panel' = r.panel
     /\ index' = r.index
     /\ tests' = r.tests
     /\ sent' = r.sent
     /\ UNCHANGED <<submit, componentVars, genVars>>

\* testApiConnection resolves with isConnected: the rest of testConnection and, for
\* Save & Test, the rest of handleSave; then the render its state changes cause
TestResponds(i, isConnected) ==
  LET t == tests[i]
      saved == t.save /\ isConnected
      st == IF saved THEN << t.config >> ELSE storage
      pnl == IF ~t.live THEN panel
             ELSE [panel EXCEPT
                     !.connectionStatus = IF isConnected THEN "success" ELSE "failed",
                     !.isTesting = FALSE,
                     !.storedConfig = IF saved THEN << t.config >> ELSE @,
                     !.apiKey = IF saved THEN "" ELSE @]
      r == Render(st, handleConfigChange(index, isConnected), pnl, RemoveAt(tests, i))
  IN /\ storage' = st
     /\ panel' = r.panel
     /\ index' = r.index
     /\ tests' = r.tests
     /\ sent' = r.sent
     /\ UNCHANGED <<submit, componentVars, genVars>>

\* the settings button of the Index page: setShowApiConfig(!showApiConfig)
ToggleSettings ==
  LET r == Render(storage, [index EXCEPT !.showApiConfig = ~@], panel, tests)
  IN /\ index.hasValidConfig
     /\ Len(r.tests) <= MaxInFlight
     /\ panel' = r.panel
     /\ index' = r.index
     /\ tests' = r.tests
     /\ sent' = r.sent
     /\ UNCHANGED <<storage, submit, componentVars, genVars>>

\* faulty variant: a submission keeps the results of the one before
SubmitVideoKeepsResults(videoId) ==
  /\ index.hasValidConfig
  /\ ~index.isLoading
  /\ IF storage = NoConfig
     THEN LET r == Render(storage, [index EXCEPT !.showApiConfig = TRUE], panel, tests)
          IN /\ panel' = r.panel
             /\ index' = r.index
             /\ tests' = r.tests
             /\ sent' = r.sent
             /\ UNCHANGED submit
     ELSE /\ index' = [index EXCEPT !.isLoading = TRUE]
          /\ submit' = << [videoId |-> videoId, apiConfig |-> storage[1],
                            phase |-> "details", transcript |-> "none"] >>
          /\ sent' = fetchVideoDetails
          /\ UNCHANGED <<panel, tests>>
  /\ UNCHANGED <<storage, componentVars, genVars>>

\* handleVideoSubmit up to its first await (the form is rendered while
\* hasValidConfig and its button is disabled while isLoading, so the branch that
\* tests the connection again, taken with a config and !hasValidConfig, is not
\* reachable from the form)
SubmitVideo(videoId) ==
  /\ index.hasValidConfig
  /\ ~index.isLoading
  /\ IF storage = NoConfig
     THEN LET r == Render(storage, [index EXCEPT !.showApiConfig = TRUE], panel, tests)
          IN /\ panel' = r.panel
             /\ index' = r.index
             /\ tests' = r.tests
             /\ sent' = r.sent
             /\ UNCHANGED submit
     ELSE /\ index' = [index EXCEPT !.isLoading = TRUE, !.videoInfo = "null",
                                    !.summary = "null"]
          /\ submit' = << [videoId |-> videoId, apiConfig |-> storage[1],
                            phase |-> "details", transcript |-> "none"] >>
          /\ sent' = fetchVideoDetails
          /\ UNCHANGED <<panel, tests>>
  /\ UNCHANGED <<storage, componentVars, genVars>>

\* fetchVideoDetails resolves (with the details or with its fallback object, both
\* for the submitted video id): setVideoInfo, then generateSummary starts with
\* fetchVideoTranscript
DetailsRespond ==
  /\ submit # NoSubmit
  /\ submit[1].phase = "details"
  /\ index' = [index EXCEPT !.videoInfo = submit[1].videoId]
  /\ submit' = << [submit[1] EXCEPT !.phase = "transcript"] >>
  /\ sent' = fetchVideoTranscript
  /\ UNCHANGED <<storage, panel, tests, componentVars, genVars>>

\* the transcript request ends: with a transcript the provider request is made,
\* without one fetchVideoTranscript falls back to fetchVideoDetails
TranscriptResponds(ok) ==
  /\ submit # NoSubmit
  /\ submit[1].phase = "transcript"
  /\ submit' = << [submit[1] EXCEPT !.phase = IF ok THEN "summary" ELSE "fallback",
                                    !.transcript = IF ok THEN "real" ELSE @] >>
  /\ sent' = IF ok THEN generateSummary(submit[1].apiConfig) ELSE fetchVideoDetails
  /\ UNCHANGED <<storage, index, panel, tests, componentVars, genVars>>

\* the fallback fetchVideoDetails resolves: the simulated transcript is summarised
FallbackResponds ==
  /\ submit # NoSubmit
  /\ submit[1].phase = "fallback"
  /\ submit' = << [submit[1] EXCEPT !.phase = "summary",
                                    !.transcript = "simulated"] >>
  /\ sent' = generateSummary(submit[1].apiConfig)
  /\ UNCHANGED <<storage, index, panel, tests, componentVars, genVars>>

\* faulty variant: setIsLoading(false) only at the end of the try block
SummaryRespondsWithoutFinally(ok) ==
  /\ submit # NoSubmit
  /\ submit[1].phase = "summary"
  /\ index' = [index EXCEPT !.summary = IF ok THEN submit[1].videoId ELSE @,
                            !.isLoading = IF ok THEN FALSE ELSE @]
  /\ submit' = NoSubmit
  /\ sent' = << >>
  /\ UNCHANGED <<storage, panel, tests, componentVars, genVars>>

\* the provider request ends: setSummary on success, a toast on failure, and
\* setIsLoading(false) in both cases
SummaryResponds(ok) ==
  /\ submit # NoSubmit
  /\ submit[1].phase = "summary"
  /\ index' = [index EXCEPT !.summary = IF ok THEN submit[1].videoId ELSE @,
                            !.isLoading = FALSE]
  /\ submit' = NoSubmit
  /\ sent' = << >>
  /\ UNCHANGED <<storage, panel, tests, componentVars, genVars>>

\* the page after its first render and the effects of that render, for the
\* localStorage content st: the panel's effect starts the test of a stored config,
\* then the effect of Index sets hasValidConfig and showApiConfig from st
ApiAfterLoad(st) ==
  LET m == MountPanel(st, [hasValidConfig |-> FALSE, showApiConfig |-> TRUE,
                           isLoading |-> FALSE, videoInfo |-> "null",
                           summary |-> "null"],
                      << >>)
      idx == [m.index EXCEPT !.hasValidConfig = (st # NoConfig),
                             !.showApiConfig = (st = NoConfig)]
      r == Render(st, idx, m.panel, m.tests)
  IN /\ storage = st
     /\ index = r.index
     /\ panel = r.panel
     /\ tests = r.tests
     /\ submit = NoSubmit
     /\ sent = m.sent

\* the component after its first render
InitComponent ==
  /\ summary = NoSummary
  /\ nodes = <<>>
  /\ edges = <<>>
  /\ handlerEdges = <<>>
  /\ lastOp = [op |-> "mount", nodeId |-> NoId, isCurrentlyCollapsed |-> FALSE]
  /\ before = [nodes |-> <<>>, edges |-> <<>>]

Init ==
  /\ InitComponent
  /\ genArg = NoSummary
  /\ genResult = NotCalled
  /\ call = NoCall
  /\ ApiAfterLoad(NoConfig)

\* faulty variant of the effect: replaces the nodes and leaves out setEdges
SetSummaryKeepsEdges(h) ==
  LET data == generateMindMapData(h)
  IN /\ summary' = <<h>>
     /\ handlerEdges' = edges
     /\ nodes' = [i \in 1..Len(data.nodes) |-> ProcessNode(data.nodes[i])]
     /\ edges' = edges
     /\ lastOp' = [op |-> "load", nodeId |-> NoId, isCurrentlyCollapsed |-> FALSE]
     /\ before' = [nodes |-> nodes, edges |-> edges]
     /\ UNCHANGED otherVars

\* the [summary] effect with a summary: both collections replaced in one effect
SetSummary(h) ==
  LET data == generateMindMapData(h)
  IN /\ summary' = <<h>>
     /\ handlerEdges' = edges
     /\ nodes' = [i \in 1..Len(data.nodes) |-> ProcessNode(data.nodes[i])]
     /\ edges' = [i \in 1..Len(data.edges) |-> ProcessEdge(data.edges[i])]
     /\ lastOp' = [op |-> "load", nodeId |-> NoId, isCurrentlyCollapsed |-> FALSE]
     /\ before' = [nodes |-> nodes, edges |-> edges]
     /\ UNCHANGED otherVars

\* the [summary] effect with summary = null
ClearSummary ==
  /\ summary # NoSummary
  /\ summary' = NoSummary
  /\ nodes' = <<>>
  /\ edges' = <<>>
  /\ handlerEdges' = <<>>
  /\ lastOp' = [op |-> "clear", nodeId |-> NoId, isCurrentlyCollapsed |-> FALSE]
  /\ before' = [nodes |-> nodes, edges |-> edges]
  /\ UNCHANGED otherVars

\* a click on the toggle button of the rendered node i (TopicNode / SubtopicNode)
ClickToggle(i) ==
  LET n == nodes[i]
      r == handleToggleCollapse(n.id, n.data.isCollapsed, nodes, handlerEdges)
  IN /\ ~n.hidden
     /\ n.type \in CollapsibleTypes
     /\ n.data.isCollapsible
     /\ n.data.onToggleCollapse # "undefined"
     /\ nodes' = r.nodes
     /\ edges' = r.edges
     /\ lastOp' = [op |-> "toggle", nodeId |-> n.id,
                   isCurrentlyCollapsed |-> n.data.isCollapsed]
     /\ before' = [nodes |-> nodes, edges |-> edges]
     /\ UNCHANGED <<summary, handlerEdges>>
     /\ UNCHANGED otherVars

\* the hierarchies loaded where the handler is also called directly
CallHierarchies == {HierFlat, HierPair}

\* every node id one of those hierarchies generates, and one id that none generates
IdUniverse ==
  UNION {{n.id : n \in Range(generateMindMapData(h).nodes)} : h \in CallHierarchies}
    \cup {<<"ghost">>}

\* ids of the current nodes that render a toggle button
ButtonIds == {n.id : n \in {m \in Range(nodes) : m.data.isCollapsible}}

\* handleToggleCollapse called outside the rendered buttons, with an id that has no
\* button (a key-point id or the id of no node) and an arbitrary flag, through the
\* instance that the nodes carry in data.onToggleCollapse
CallToggle(nodeId, isCurrentlyCollapsed) ==
  LET r == handleToggleCollapse(nodeId, isCurrentlyCollapsed, nodes, handlerEdges)
  IN /\ \E n \in Range(nodes) : n.data.onToggleCollapse # "undefined"
     /\ nodeId \notin ButtonIds
     /\ nodes' = r.nodes
     /\ edges' = r.edges
     /\ lastOp' = [op |-> "call", nodeId |-> nodeId,
                   isCurrentlyCollapsed |-> isCurrentlyCollapsed]
     /\ before' = [nodes |-> nodes, edges |-> edges]
     /\ UNCHANGED <<summary, handlerEdges>>
     /\ UNCHANGED otherVars

\* clicks on the toggle buttons of the rendered nodes i and j, one right after the
\* other, before the component renders again: both calls see the isCollapsed of
\* the same render, React runs the two setNodes updaters in order when it renders,
\* and the setEdges of the second updater is the one that stays
ClickTwo(i, j) ==
  LET a == nodes[i]
      b == nodes[j]
      first == handleToggleCollapse(a.id, a.data.isCollapsed, nodes, handlerEdges)
      second == handleToggleCollapse(b.id, b.data.isCollapsed, first.nodes, handlerEdges)
  IN /\ i # j
     /\ ~a.hidden /\ ~b.hidden
     /\ a.data.isCollapsible /\ b.data.isCollapsible
     /\ a.data.onToggleCollapse # "undefined"
     /\ b.data.onToggleCollapse # "undefined"
     /\ nodes' = second.nodes
     /\ edges' = second.edges
     /\ lastOp' = [op |-> "batch", nodeId |-> a.id,
                   isCurrentlyCollapsed |-> a.data.isCollapsed,
                   secondId |-> b.id, secondCollapsed |-> b.data.isCollapsed]
     /\ before' = [nodes |-> nodes, edges |-> edges]
     /\ UNCHANGED <<summary, handlerEdges>>
     /\ UNCHANGED otherVars

Next ==
  \/ \E h \in Hierarchies : SetSummary(h)
  \/ ClearSummary
  \/ \E i \in 1..Len(nodes) : ClickToggle(i)

\* the component driven through its props and its rendered buttons
Spec == Init /\ [][Next]_vars

NextCall ==
  \/ \E h \in CallHierarchies : SetSummary(h)
  \/ ClearSummary
  \/ \E i \in 1..Len(nodes) : ClickToggle(i)
  \/ \E id \in IdUniverse, c \in BOOLEAN : CallToggle(id, c)

\* the same, and the toggle handler also called directly with any id
SpecCall == Init /\ [][NextCall]_vars

NextBatch ==
  \/ \E h \in CallHierarchies : SetSummary(h)
  \/ ClearSummary
  \/ \E i \in 1..Len(nodes) : ClickToggle(i)
  \/ \E i, j \in 1..Len(nodes) : ClickTwo(i, j)

\* the component where two buttons can be clicked within one render
SpecBatch == Init /\ [][NextBatch]_vars

\* topic A with 3 key points and one subtopic with 2 key points, topic B with one
\* key point and no subtopics
HierScenario ==
  [tldr |-> "scenario",
   topics |-> << TopicOf("A", 3, << SubtopicOf("A.1", 2) >>),
                 TopicOf("B", 1, << >>) >>]

NextScenario ==
  \/ SetSummary(HierScenario)
  \/ ClearSummary
  \/ \E i \in 1..Len(nodes) : ClickToggle(i)

\* the component showing the hierarchy of topics A and B
SpecScenario == Init /\ [][NextScenario]_vars

(***************************************************************************)
(* generateMindMapData called directly, over every hierarchy of a bounded  *)
(* shape and over hierarchies with a malformed entry.                      *)
(***************************************************************************)

MaxTopics == 2
MaxKeyPoints == 2
MaxSubtopics == 1
MaxSubKeyPoints == 2

TopicTitles == << "T1", "T2", "T3", "T4" >>
SubtopicTitles == << "S1", "S2", "S3", "S4" >>

\* the subtopic arrays of a topic: up to MaxSubtopics subtopics, each with up to
\* MaxSubKeyPoints key points
SubtopicArrays ==
  UNION {{[s \in 1..n |-> SubtopicOf(SubtopicTitles[s], c[s])] :
             c \in [1..n -> 0..MaxSubKeyPoints]} : n \in 0..MaxSubtopics}

\* the topic arrays: up to MaxTopics topics, each with up to MaxKeyPoints key points
TopicArrays ==
  UNION {{[t \in 1..n |-> TopicOf(TopicTitles[t], k[t], subs[t])] :
             k \in [1..n -> 0..MaxKeyPoints], subs \in [1..n -> SubtopicArrays]} :
         n \in 0..MaxTopics}

\* every well-formed SummaryResult within the bounds
GenHierarchies == {[tldr |-> "generated", topics |-> ts] : ts \in TopicArrays}

\* an object without the property f
Without(obj, f) == [g \in (DOMAIN obj) \ {f} |-> obj[g]]

\* the hierarchy h whose topic t lacks the property f
TopicWithout(h, t, f) ==
  [h EXCEPT !.topics = [i \in 1..Len(h.topics) |->
      IF i = t THEN Without(h.topics[i], f) ELSE h.topics[i]]]

\* the hierarchy h whose subtopic s of topic t lacks the property f
SubtopicWithout(h, t, s, f) ==
  [h EXCEPT !.topics = [i \in 1..Len(h.topics) |->
      IF i = t
      THEN [h.topics[i] EXCEPT !.subtopics = [j \in 1..Len(h.topics[i].subtopics) |->
              IF j = s THEN Without(h.topics[i].subtopics[j], f)
              ELSE h.topics[i].subtopics[j]]]
      ELSE h.topics[i]]]

\* hierarchies with one entry that lacks its title or its keyPoints
MalformedHierarchies ==
  UNION {{TopicWithout(h, t, f) : t \in 1..Len(h.topics), f \in {"title", "keyPoints"}}
         \cup UNION {{SubtopicWithout(h, t, s, f) :
                         s \in 1..Len(h.topics[t].subtopics),
                         f \in {"title", "keyPoints"}} : t \in 1..Len(h.topics)} :
         h \in GenHierarchies}

\* subtopics of the first topic in the hierarchies with many subtopics
MaxManySubtopics == 8

\* two topics, the first with many subtopics of equal size
ManySubtopicHierarchies ==
  {[tldr |-> "generated",
    topics |-> << TopicOf(TopicTitles[1], k, [s \in 1..n |-> SubtopicOf(SubtopicTitles[1], c)]),
                  TopicOf(TopicTitles[2], 0, << >>) >>] :
     k \in 0..1, c \in 0..1, n \in (MaxSubtopics + 1)..MaxManySubtopics}

GenInputs == GenHierarchies \cup MalformedHierarchies \cup ManySubtopicHierarchies

\* the entries (topics and subtopics) of a hierarchy
Entries(h) ==
  Range(h.topics)
    \cup UNION {Range(h.topics[t].subtopics) : t \in 1..Len(h.topics)}

\* topic.keyPoints.length, sub.keyPoints.length and .forEach on a keyPoints that is
\* undefined raise a TypeError
Throws(h) == \E e \in Entries(h) : "keyPoints" \notin DOMAIN e

InitGen ==
  /\ InitComponent
  /\ ApiAfterLoad(NoConfig)
  /\ genArg \in {<<h>> : h \in GenInputs}
  /\ genResult = NotCalled
  /\ call = NoCall

\* a call of generateMindMapData that returns { nodes, edges }
GenerateReturns ==
  /\ genResult = NotCalled
  /\ ~Throws(genArg[1])
  /\ genResult' = Spread([status |-> "returned"], generateMindMapData(genArg[1]))
  /\ UNCHANGED <<componentVars, genArg, call, apiVars>>

\* a call of generateMindMapData that ends in a TypeError: nothing is returned
GenerateThrows ==
  /\ genResult = NotCalled
  /\ Throws(genArg[1])
  /\ genResult' = [status |-> "TypeError", nodes |-> <<>>, edges |-> <<>>]
  /\ UNCHANGED <<componentVars, genArg, call, apiVars>>

NextGen == GenerateReturns \/ GenerateThrows

\* generateMindMapData as a function of its argument
SpecGen == InitGen /\ [][NextGen]_vars

(***************************************************************************)
(* The page with its API key panel and its video form.                     *)
(***************************************************************************)

InitApi ==
  /\ InitComponent
  /\ genArg = NoSummary
  /\ genResult = NotCalled
  /\ call = NoCall
  /\ \E st \in {NoConfig} \cup {<<c>> : c \in Configs} : ApiAfterLoad(st)

NextApi ==
  \/ \E p \in Providers : SelectProvider(p)
  \/ \E k \in ApiKeys \cup {""} : TypeKey(k)
  \/ ClickSave
  \/ ClickTest
  \/ ClickRemove
  \/ \E i \in 1..Len(tests), isConnected \in BOOLEAN : TestResponds(i, isConnected)
  \/ ToggleSettings
  \/ \E v \in VideoIds : SubmitVideo(v)
  \/ DetailsRespond
  \/ \E ok \in BOOLEAN : TranscriptResponds(ok)
  \/ FallbackResponds
  \/ \E ok \in BOOLEAN : SummaryResponds(ok)

\* save, test, remove and submit in any order, with the responses in any order
SpecApi == InitApi /\ [][NextApi]_vars

\* every request of a submission is answered or fails in the end, so the promise
\* handleVideoSubmit awaits settles and its continuation runs
SpecApiFair ==
  /\ SpecApi
  /\ WF_vars(DetailsRespond)
  /\ WF_vars(\E ok \in BOOLEAN : TranscriptResponds(ok))
  /\ WF_vars(FallbackResponds)
  /\ WF_vars(\E ok \in BOOLEAN : SummaryResponds(ok))

(***************************************************************************)
(* The earlier API key form, whose Save stores the key at once and starts  *)
(* the test without waiting for it, on the Index page that always renders  *)
(* the form and passes setHasValidConfig as onConfigChange.  call records  *)
(* what the form reported last and which configs a test has confirmed.     *)
(***************************************************************************)

\* testConnection(config) of the form up to its await: a test in flight
FormStartedTest(config) == [config |-> config]

\* the observations of the form: the last onConfigChange argument ("none" before
\* the first call) and the configs for which testApiConnection has returned true
FormObserved(lastReport, succeeded) ==
  [fn |-> "ApiKeyConfiguration", lastReport |-> lastReport, succeeded |-> succeeded]

\* the page after its first render and the mount effects, for the localStorage
\* content st
InitForm ==
  /\ InitComponent
  /\ genArg = NoSummary
  /\ genResult = NotCalled
  /\ submit = NoSubmit
  /\ call = FormObserved("none", {})
  /\ \E st \in {NoConfig} \cup {<< c >> : c \in Configs} :
       /\ storage = st
       /\ index = [hasValidConfig |-> (st # NoConfig), showApiConfig |-> TRUE,
                   isLoading |-> FALSE, videoInfo |-> "null", summary |-> "null"]
       /\ IF st # NoConfig
          THEN /\ panel = [UnmountedPanel EXCEPT !.mounted = TRUE,
                                                 !.provider = st[1].provider,
                                                 !.storedConfig = st,
                                                 !.isTesting = TRUE]
               /\ tests = << FormStartedTest(st[1]) >>
               /\ sent = testApiConnection(st[1])
          ELSE /\ panel = [UnmountedPanel EXCEPT !.mounted = TRUE]
               /\ tests = << >>
               /\ sent = << >>

\* the provider radio group (never disabled)
FormSelectProvider(p) ==
  /\ p # panel.provider
  /\ panel' = [panel EXCEPT !.provider = p]
  /\ sent' = << >>
  /\ UNCHANGED <<storage, index, tests, submit, call, componentVars, genArg, genResult>>

\* the API key input (never disabled)
FormTypeKey(k) ==
  /\ k # panel.apiKey
  /\ panel' = [panel EXCEPT !.apiKey = k]
  /\ sent' = << >>
  /\ UNCHANGED <<storage, index, tests, submit, call, componentVars, genArg, genResult>>

\* handleSave (button Save, disabled only while the input is empty): saveApiKey,
\* setStoredConfig, then testConnection up to its await
FormSave ==
  LET config == [provider |-> panel.provider, apiKey |-> panel.apiKey]
  IN /\ panel.apiKey # ""
     /\ Len(tests) < MaxInFlight
     /\ storage' = << config >>
     /\ panel' = [panel EXCEPT !.storedConfig = << config >>, !.isTesting = TRUE,
                               !.connectionStatus = "untested"]
     /\ tests' = Append(tests, FormStartedTest(config))
     /\ sent' = testApiConnection(config)
     /\ UNCHANGED <<index, submit, call, componentVars, genArg, genResult>>

\* handleTestStoredKey (button Test Connection, disabled while isTesting)
FormTest ==
  /\ panel.storedConfig # NoConfig
  /\ ~panel.isTesting
  /\ Len(tests) < MaxInFlight
  /\ panel' = [panel EXCEPT !.isTesting = TRUE, !.connectionStatus = "untested"]
  /\ tests' = Append(tests, FormStartedTest(panel.storedConfig[1]))
  /\ sent' = testApiConnection(panel.storedConfig[1])
  /\ UNCHANGED <<storage, index, submit, call, componentVars, genArg, genResult>>

\* handleDelete (button Remove API Key, disabled while isTesting)
FormRemove ==
  /\ panel.storedConfig # NoConfig
  /\ ~panel.isTesting
  /\ storage' = NoConfig
  /\ panel' = [panel EXCEPT !.storedConfig = NoConfig, !.apiKey = "",
                            !.connectionStatus = "untested"]
  /\ index' = [index EXCEPT !.hasValidConfig = FALSE]
  /\ call' = [call EXCEPT !.lastReport = "false"]
  /\ sent' = << >>
  /\ UNCHANGED <<tests, submit, componentVars, genArg, genResult>>

\* testApiConnection resolves with isConnected: the rest of testConnection
FormTestResponds(i, isConnected) ==
  /\ panel' = [panel EXCEPT
       !.connectionStatus = IF isConnected THEN "success" ELSE "failed",
       !.isTesting = FALSE]
  /\ index' = [index EXCEPT !.hasValidConfig = isConnected]
  /\ call' = [call EXCEPT
       !.lastReport = IF isConnected THEN "true" ELSE "false",
       !.succeeded = IF isConnected THEN @ \cup {tests[i].config} ELSE @]
  /\ tests' = RemoveAt(tests, i)
  /\ sent' = << >>
  /\ UNCHANGED <<storage, submit, componentVars, genArg, genResult>>

NextForm ==
  \/ \E p \in Providers : FormSelectProvider(p)
  \/ \E k \in ApiKeys : FormTypeKey(k)
  \/ FormSave
  \/ FormTest
  \/ FormRemove
  \/ \E i \in 1..Len(tests), isConnected \in BOOLEAN : FormTestResponds(i, isConnected)

SpecForm == InitForm /\ [][NextForm]_vars

(***************************************************************************)
(* testApiConnection on its own: what the promise it returns settles with, *)
(* for every provider string and every way its request can end.            *)
(***************************************************************************)

\* provider strings that are neither openai nor gemini
OtherProviders == {"azure", ""}

\* the copies of the function: part_000 returns response.ok for openai, the copy in
\* types.ts and part_001 throws on !response.ok and returns true otherwise
ConnVersions == {"part_000", "types"}

\* what response.json() finds: a models list, an object with an error, an object
\* whose error field is falsy (null), the JSON value null, or no JSON at all
Bodies == {"models", "error", "falsyError", "null", "notJson"}

\* fetch rejects (network failure) or resolves with a response
FetchOutcomes ==
  {[kind |-> "rejects", ok |-> FALSE, body |-> "notJson"]}
    \cup [kind : {"response"}, ok : BOOLEAN, body : Bodies]

Return(value) == [completion |-> "return", value |-> value]
Throw == [completion |-> "throw", value |-> FALSE]

\* data.error is truthy
HasError(body) == body = "error"

\* the try block after the await of fetch
TryBlock(version, config, outcome) ==
  IF outcome.kind = "rejects" THEN Throw
  ELSE IF config.provider = "openai"
  THEN IF version = "part_000" THEN Return(outcome.ok)
       ELSE IF ~outcome.ok THEN Throw ELSE Return(TRUE)
  ELSE \* gemini: data = await response.json(); data.error is read in any case
       IF outcome.body \in {"notJson", "null"} THEN Throw
       ELSE IF ~outcome.ok \/ HasError(outcome.body) THEN Throw
       ELSE Return(TRUE)

Resolved(value) == [settled |-> "resolved", value |-> value]
Rejected == [settled |-> "rejected", value |-> FALSE]
Pending == [settled |-> "pending", value |-> FALSE]

\* faulty variant: no catch around the try block
SettleWithoutCatch(completion) ==
  IF completion.completion = "throw" THEN Rejected ELSE Resolved(completion.value)

\* try { ... } catch (error) { return false }
Settle(completion) ==
  IF completion.completion = "throw" THEN Resolved(FALSE)
  ELSE Resolved(completion.value)

NoOutcome == [kind |-> "none", ok |-> FALSE, body |-> "notJson"]

InitConn ==
  /\ InitComponent
  /\ genArg = NoSummary
  /\ genResult = NotCalled
  /\ ApiAfterLoad(NoConfig)
  /\ call \in {[fn |-> "testApiConnection", pc |-> "start", version |-> v,
                 config |-> [provider |-> p, apiKey |-> k],
                 outcome |-> NoOutcome, result |-> Pending] :
                v \in ConnVersions, p \in Providers \cup OtherProviders, k \in ApiKeys}

\* the call up to its await: the request of the provider's branch is sent
ConnRequest ==
  /\ call.fn = "testApiConnection"
  /\ call.pc = "start"
  /\ testApiConnection(call.config) # << >>
  /\ sent' = testApiConnection(call.config)
  /\ call' = [call EXCEPT !.pc = "await"]
  /\ UNCHANGED <<storage, index, panel, tests, submit, componentVars, genArg, genResult>>

\* neither branch is taken: return false
ConnUnknownProvider ==
  /\ call.fn = "testApiConnection"
  /\ call.pc = "start"
  /\ testApiConnection(call.config) = << >>
  /\ call' = [call EXCEPT !.pc = "done", !.result = Settle(Return(FALSE))]
  /\ UNCHANGED <<apiVars, componentVars, genArg, genResult>>

\* fetch settles with outcome: the rest of the try block, or the catch block
ConnFetchSettles(outcome) ==
  /\ call.fn = "testApiConnection"
  /\ call.pc = "await"
  /\ call' = [call EXCEPT
       !.pc = "done",
       !.outcome = outcome,
       !.result = Settle(TryBlock(call.version, call.config, outcome))]
  /\ UNCHANGED <<apiVars, componentVars, genArg, genResult>>

NextConn ==
  \/ ConnRequest
  \/ ConnUnknownProvider
  \/ \E outcome \in FetchOutcomes : ConnFetchSettles(outcome)

SpecConn == InitConn /\ [][NextConn]_vars

(***************************************************************************)
(* The descendant traversal of toggleDescendants, statement by statement,  *)
(* over arbitrary edge collections (cycles, self loops, several incoming   *)
(* edges).  call.head is the zero-based index of the source.               *)
(***************************************************************************)

TravIds == {<<"topic", 0>>, <<"sub", 0, 0>>, <<"kp", 0, 0>>}

\* edges of an edge collection
MaxTravEdges == 4

\* every edge between two of the ids, self loops included
AllTravEdges == {ProcessEdge(MkEdge(a, b)) : a \in TravIds, b \in TravIds}

RECURSIVE ArrayOf(_)
\* an array holding the elements of a finite set
ArrayOf(S) ==
  IF S = {} THEN << >>
  ELSE LET x == CHOOSE v \in S : TRUE IN << x >> \o ArrayOf(S \ {x})

TravEdgeArrays ==
  {ArrayOf(S) : S \in {T \in SUBSET AllTravEdges : Cardinality(T) <= MaxTravEdges}}

InitTrav ==
  /\ InitComponent
  /\ genArg = NoSummary
  /\ genResult = NotCalled
  /\ ApiAfterLoad(NoConfig)
  /\ call \in {[fn |-> "toggleDescendants", pc |-> "start", nodeId |-> n,
                 currentEdges |-> es, stack |-> << >>, head |-> 0,
                 nodesToUpdate |-> {}, edgesToUpdate |-> {}] :
                n \in TravIds, es \in TravEdgeArrays}

\* faulty variant: the loop starts at the toggled node instead of its first child
TravStartAtToggledNode ==
  LET directChildrenEdges ==
        SelectSeq(call.currentEdges, LAMBDA e : e.source = call.nodeId)
  IN /\ call.fn = "toggleDescendants"
     /\ call.pc = "start"
     /\ call' = [call EXCEPT
          !.stack = PushTargets(<< call.nodeId >>, directChildrenEdges),
          !.edgesToUpdate = {e.id : e \in Range(directChildrenEdges)},
          !.head = 0,
          !.pc = "loop"]
     /\ UNCHANGED <<componentVars, genArg, genResult, apiVars>>

\* stack = [nodeId], the direct children pushed, head = 1
TravStart ==
  LET directChildrenEdges ==
        SelectSeq(call.currentEdges, LAMBDA e : e.source = call.nodeId)
  IN /\ call.fn = "toggleDescendants"
     /\ call.pc = "start"
     /\ call' = [call EXCEPT
          !.stack = PushTargets(<< call.nodeId >>, directChildrenEdges),
          !.edgesToUpdate = {e.id : e \in Range(directChildrenEdges)},
          !.head = 1,
          !.pc = "loop"]
     /\ UNCHANGED <<componentVars, genArg, genResult, apiVars>>

\* one iteration of while (head < stack.length)
TravStep ==
  LET currentId == call.stack[call.head + 1]
      childEdges == SelectSeq(call.currentEdges, LAMBDA e : e.source = currentId)
  IN /\ call.fn = "toggleDescendants"
     /\ call.pc = "loop"
     /\ call.head < Len(call.stack)
     /\ call' = [call EXCEPT
          !.head = @ + 1,
          !.nodesToUpdate = @ \cup {currentId},
          !.stack = PushTargets(@, childEdges),
          !.edgesToUpdate = @ \cup {e.id : e \in Range(childEdges)}]
     /\ UNCHANGED <<componentVars, genArg, genResult, apiVars>>

\* the loop condition is false: the traversal is over
TravExit ==
  /\ call.fn = "toggleDescendants"
  /\ call.pc = "loop"
  /\ ~(call.head < Len(call.stack))
  /\ call' = [call EXCEPT !.pc = "done"]
  /\ UNCHANGED <<componentVars, genArg, genResult, apiVars>>

NextTrav == TravStart \/ TravStep \/ TravExit

\* the traversal run to its end: a call runs on until it returns
SpecTrav == InitTrav /\ [][NextTrav]_vars /\ WF_vars(NextTrav)

(***************************************************************************)
(* The arc subdivision of the radial layouts.  Angles are exact rationals  *)
(* [num, den] in lowest terms with a positive denominator; the rounding of *)
(* the doubles of the code is not modelled.                                *)
(***************************************************************************)

RECURSIVE GCD(_, _)
GCD(a, b) == IF b = 0 THEN a ELSE GCD(b, a % b)

Abs(n) == IF n < 0 THEN 0 - n ELSE n

\* the rational n/d, d # 0
Rat(n, d) ==
  LET g == GCD(Abs(n), Abs(d))
      sgn == IF d < 0 THEN 0 - 1 ELSE 1
  IN [num |-> sgn * (n \div g), den |-> sgn * (d \div g)]

RatOfInt(n) == Rat(n, 1)
RatAdd(a, b) == Rat(a.num * b.den + b.num * a.den, a.den * b.den)
RatNeg(a) == [num |-> 0 - a.num, den |-> a.den]
RatSub(a, b) == RatAdd(a, RatNeg(b))
RatMul(a, b) == Rat(a.num * b.num, a.den * b.den)
\* a / b, b # 0
RatDiv(a, b) == Rat(a.num * b.den, a.den * b.num)

\* Math.max on integers
MathMax(a, b) == IF a > b THEN a ELSE b

\* the copies of the radial generator
ArcVersions == {"api-service", "types"}

\* keyPointArc: 0.8 in api-service.ts, 0.7 in types.ts
keyPointArc(version) == IF version = "types" THEN Rat(7, 10) ELSE Rat(4, 5)
\* subtopicArc = keyPointArc * 0.8
subtopicArc(version) == RatMul(keyPointArc(version), Rat(8, 10))
\* subKeyArc = subtopicArc * 0.7
subKeyArc(version) == RatMul(subtopicArc(version), Rat(7, 10))

ArcGroups == {"keyPoints", "subtopics", "subKeyPoints"}

\* the arc a group of siblings is spread over
ArcOf(version, group) ==
  CASE group = "keyPoints" -> keyPointArc(version)
    [] group = "subtopics" -> subtopicArc(version)
    [] OTHER -> subKeyArc(version)

\* siblings of one group
MaxSiblings == 5

\* angles of the parent (the angle of a topic or of a subtopic)
ParentAngles == {RatOfInt(0), Rat(157, 75), Rat(0 - 11, 8)}

\* faulty variant: the step divides by the number of siblings
calculateOptimalPositionsStepByCount(count, totalArc) ==
  IF count <= 1 THEN << RatOfInt(0) >>
  ELSE LET step == RatDiv(totalArc, RatOfInt(count))
       IN [k \in 1..count |->
             RatAdd(RatNeg(RatDiv(totalArc, RatOfInt(2))),
                    RatMul(RatOfInt(k - 1), step))]

\* the offsets of count siblings over totalArc
calculateOptimalPositions(count, totalArc) ==
  IF count <= 1 THEN << RatOfInt(0) >>
  ELSE LET step == RatDiv(totalArc, RatOfInt(count - 1))
       IN [k \in 1..count |->
             RatAdd(RatNeg(RatDiv(totalArc, RatOfInt(2))),
                    RatMul(RatOfInt(k - 1), step))]

\* the angle of sibling siblingIndex of total, computed in the loop body:
\* arcStart = angle - arc/2, arcStep = arc / max(total - 1, 1),
\* total > 1 ? arcStart + siblingIndex * arcStep : angle
SiblingAngle(angle, arc, total, siblingIndex) ==
  LET arcStart == RatSub(angle, RatDiv(arc, RatOfInt(2)))
      arcStep == RatDiv(arc, RatOfInt(MathMax(total - 1, 1)))
  IN IF total > 1 THEN RatAdd(arcStart, RatMul(RatOfInt(siblingIndex), arcStep))
     ELSE angle

\* the key points of a topic in types.ts go through calculateOptimalPositions
UsesHelper(c) == c.version = "types" /\ c.group = "keyPoints"

InitArc ==
  /\ InitComponent
  /\ genArg = NoSummary
  /\ genResult = NotCalled
  /\ ApiAfterLoad(NoConfig)
  /\ call \in {[fn |-> "arc", version |-> v, group |-> g, angle |-> a,
                 total |-> n, keyPointOffsets |-> << >>, angles |-> << >>] :
                v \in ArcVersions, g \in ArcGroups, a \in ParentAngles,
                n \in 0..MaxSiblings}

\* keyPointOffsets = calculateOptimalPositions(length, keyPointArc), then
\* keyPointAngle = angle + keyPointOffsets[keyPointIndex] for every key point
PlaceKeyPoints ==
  LET offsets == calculateOptimalPositions(call.total, ArcOf(call.version, call.group))
  IN /\ call.fn = "arc"
     /\ UsesHelper(call)
     /\ call.keyPointOffsets = << >>
     /\ call' = [call EXCEPT
          !.keyPointOffsets = offsets,
          !.angles = [k \in 1..call.total |-> RatAdd(call.angle, offsets[k])]]
     /\ UNCHANGED <<componentVars, genArg, genResult, apiVars>>

\* one iteration of the forEach of a group that computes the angle in place
PlaceSibling ==
  /\ call.fn = "arc"
  /\ ~UsesHelper(call)
  /\ Len(call.angles) < call.total
  /\ call' = [call EXCEPT
       !.angles = Append(@, SiblingAngle(call.angle,
                                          ArcOf(call.version, call.group),
                                          call.total, Len(call.angles)))]
  /\ UNCHANGED <<componentVars, genArg, genResult, apiVars>>

NextArc == PlaceKeyPoints \/ PlaceSibling

SpecArc == InitArc /\ [][NextArc]_vars

(***************************************************************************)
(* Vocabulary of the properties.                                           *)
(***************************************************************************)

Loaded == summary # NoSummary

\* the layout generated from the current summary
Layout == generateMindMapData(summary[1])

NodeIds(ns) == {n.id : n \in Range(ns)}

EdgeTriples(es) == {<<e.id, e.source, e.target>> : e \in Range(es)}

NodeHidden(ns) == {<<n.id, n.hidden>> : n \in Range(ns)}

EdgeHidden(es) == {<<e.id, e.hidden>> : e \in Range(es)}

Collapsed(ns) == {n.id : n \in {m \in Range(ns) : m.data.isCollapsed}}

\* id, kind, label and position of every node, in order
NodeCore(ns) ==
  [i \in 1..Len(ns) |-> [id |-> ns[i].id, type |-> ns[i].type,
                         label |-> ns[i].data.label, position |-> ns[i].position]]

\* id, source and target of every edge, in order
EdgeCore(es) ==
  [i \in 1..Len(es) |-> [id |-> es[i].id, source |-> es[i].source,
                         target |-> es[i].target]]

ChildrenIn(es, id) == {e.target : e \in {f \in Range(es) : f.source = id}}

RECURSIVE ReachFrom(_, _, _)
\* set-based reachability over source->target edges, independent of the stack loop
ReachFrom(frontier, seen, es) ==
  IF frontier = {} THEN seen
  ELSE LET next == (UNION {ChildrenIn(es, id) : id \in frontier}) \ seen
       IN ReachFrom(next, seen \cup next, es)

\* the nodes reachable from id over the edges of the generated layout
LayoutDescendants(id) == ReachFrom({id}, {}, Layout.edges)

ToggledByButton == lastOp.op = "toggle"

(***************************************************************************)
(* C1.  After a load and a toggle, through the callback the node carries,  *)
(* of an expanded collapsible node X: every node reachable from X over the *)
(* edges of the generated layout is hidden, and X itself is not hidden.    *)
(***************************************************************************)
C1_CollapseHidesDescendants ==
  (ToggledByButton /\ ~lastOp.isCurrentlyCollapsed) =>
     /\ \A n \in Range(nodes) :
          n.id \in LayoutDescendants(lastOp.nodeId) => n.hidden
     /\ \A n \in Range(nodes) : n.id = lastOp.nodeId => ~n.hidden

(***************************************************************************)
(* C2.  In every state reached by loads and toggles, an edge whose source  *)
(* or target node is hidden is hidden, and every visible edge has both     *)
(* endpoints among the visible nodes.                                      *)
(***************************************************************************)
C2_VisibleEdgesHaveVisibleEndpoints ==
  LET visibleNodes == {n.id : n \in {m \in Range(nodes) : ~m.hidden}}
  IN \A e \in Range(edges) :
       ~e.hidden => (e.source \in visibleNodes /\ e.target \in visibleNodes)

(***************************************************************************)
(* C3.  For a collapsible node X with no collapsed descendants, a second   *)
(* toggle of X right after the first (the button re-rendered in between)   *)
(* restores the hidden flag of every node and every edge to its value      *)
(* before the first toggle.                                                *)
(***************************************************************************)
C3_DoubleToggleRestores ==
  (/\ ToggledByButton
   /\ \A n \in Range(before.nodes) :
        n.id \in LayoutDescendants(lastOp.nodeId) => ~n.data.isCollapsed)
  => \A i \in 1..Len(nodes) :
       nodes[i].id = lastOp.nodeId =>
         LET second == handleToggleCollapse(nodes[i].id, nodes[i].data.isCollapsed,
                                            nodes, handlerEdges)
         IN /\ NodeHidden(second.nodes) = NodeHidden(before.nodes)
            /\ EdgeHidden(second.edges) = EdgeHidden(before.edges)

\* the step expanded topic T while its subtopic S was marked collapsed
ExpandedOver(T, S) ==
  /\ ToggledByButton
  /\ lastOp.nodeId = T
  /\ lastOp.isCurrentlyCollapsed
  /\ S \in ChildrenIn(Layout.edges, T)
  /\ \E n \in Range(before.nodes) :
       n.id = S /\ n.type = "subtopic" /\ n.data.isCollapsed

C5_RootNotCollapsible ==
  /\ Loaded =>
       \A n \in Range(nodes) :
         /\ (n.type \notin {"topic", "subtopic", "keypoint"}) <=> (n.id = centerId)
         /\ n.id = centerId => (n.data.onToggleCollapse = "undefined"
                                /\ ~n.data.isCollapsible)
  /\ (lastOp.op \in {"toggle", "call"} /\ lastOp.nodeId = centerId) =>
       /\ NodeHidden(nodes) = NodeHidden(before.nodes)
       /\ EdgeHidden(edges) = EdgeHidden(before.edges)

C8_LoadResetsEverything ==
  lastOp.op = "load" =>
    /\ \A n \in Range(nodes) : ~n.hidden /\ ~n.data.isCollapsed
    /\ \A e \in Range(edges) : ~e.hidden
    /\ NodeCore(nodes) = NodeCore(Layout.nodes)
    /\ EdgeCore(edges) = EdgeCore(Layout.edges)

\* a load that replaced a state with hidden nodes, hidden edges and a collapsed node
C8_Witness ==
  /\ lastOp.op = "load"
  /\ \E n \in Range(before.nodes) : n.hidden
  /\ \E e \in Range(before.edges) : e.hidden
  /\ Collapsed(before.nodes) # {}
  /\ EdgeCore(before.edges) # EdgeCore(edges)
  /\ Len(nodes) > 1

(***************************************************************************)
(* C9.  After a hierarchy H is loaded (first load or replacement) and any  *)
(* sequence of toggles through the node callbacks, the edge collection has *)
(* exactly the (id, source, target) triples generated from H and the node  *)
(* collection exactly the node ids of H.                                   *)
(***************************************************************************)
C9_CollectionsAreThoseOfCurrentHierarchy ==
  Loaded =>
    /\ EdgeTriples(edges) = EdgeTriples(Layout.edges)
    /\ NodeIds(nodes) = NodeIds(Layout.nodes)

(***************************************************************************)
(* C10.  A toggle adds or removes no node and no edge and changes no       *)
(* node's id, kind, label or position and no edge's id, source or target.  *)
(***************************************************************************)
C10_ToggleChangesOnlyFlags ==
  ToggledByButton =>
    /\ NodeCore(nodes) = NodeCore(before.nodes)
    /\ EdgeCore(edges) = EdgeCore(before.edges)

(***************************************************************************)
(* Properties of generateMindMapData called directly (SpecGen).            *)
(***************************************************************************)

\* the call has returned a layout
Returned == genResult.status = "returned"

\* the hierarchy the generator was called with
Arg == genArg[1]

\* 1 + T + key points + subtopics + key points of subtopics, counted on the argument
ExpectedNodeCount(h) ==
  1 + Len(h.topics)
    + SumSeq([t \in 1..Len(h.topics) |->
        Len(h.topics[t].keyPoints) + Len(h.topics[t].subtopics)
          + SumSeq([s \in 1..Len(h.topics[t].subtopics) |->
                      Len(h.topics[t].subtopics[s].keyPoints)])])

\* C11: a call that returns yields exactly 1 + T + (key points of the topics)
\* + (subtopics) + (key points of the subtopics) nodes and one edge less than nodes,
\* for T topics, T >= 0.
C11_NodeAndEdgeCounts ==
  Returned =>
    /\ Len(genResult.nodes) = ExpectedNodeCount(Arg)
    /\ Len(genResult.edges) = Len(genResult.nodes) - 1

\* a returned layout of two topics, the first with key points and a subtopic that
\* has key points of its own
C11_Witness ==
  /\ Returned
  /\ Len(Arg.topics) = 2
  /\ Len(Arg.topics[1].keyPoints) = 2
  /\ Len(Arg.topics[1].subtopics) = 1
  /\ Len(Arg.topics[1].subtopics[1].keyPoints) = 2
  /\ Len(genResult.nodes) >= 8
  /\ Len(genResult.edges) >= 7

\* the number of returned edges (array positions) whose target is id
InDegree(id) ==
  Cardinality({i \in 1..Len(genResult.edges) : genResult.edges[i].target = id})

\* the ids of the returned nodes
ReturnedIds == {genResult.nodes[i].id : i \in 1..Len(genResult.nodes)}

\* C12: in a returned layout the root is the target of no edge, every other node is
\* the target of exactly one edge, and every edge's source and target are ids of
\* returned nodes.
C12_EdgesFormATree ==
  Returned =>
    /\ genResult.nodes[1].id = centerId
    /\ InDegree(centerId) = 0
    /\ \A i \in 2..Len(genResult.nodes) : InDegree(genResult.nodes[i].id) = 1
    /\ \A i \in 1..Len(genResult.edges) :
         /\ genResult.edges[i].source \in ReturnedIds
         /\ genResult.edges[i].target \in ReturnedIds

\* a returned layout with edges on all three levels: root to topic, topic to
\* subtopic, subtopic to key point
C12_Witness ==
  /\ Returned
  /\ \E i, j, k \in 1..Len(genResult.edges) :
       /\ genResult.edges[i].source = centerId
       /\ genResult.edges[j].source = genResult.edges[i].target
       /\ genResult.edges[k].source = genResult.edges[j].target

RECURSIVE Digits(_)
\* the decimal digits of a natural number, as `${n}` renders it
Digits(n) ==
  LET d == <<"0", "1", "2", "3", "4", "5", "6", "7", "8", "9">>
  IN IF n < 10 THEN << d[n + 1] >> ELSE Digits(n \div 10) \o << d[(n % 10) + 1] >>

RECURSIVE IdText(_)
\* the string a template literal of the generator produces for an id, as the
\* sequence of its words, dashes and digits: 'center', `topic-${i}`, `kp-${i}-${k}`,
\* `sub-${i}-${s}`, `skp-${i}-${s}-${k}`, `edge-${source}-${target}`
IdText(id) ==
  IF id[1] = "edge"
  THEN << "edge", "-" >> \o IdText(id[2]) \o << "-" >> \o IdText(id[3])
  ELSE IF Len(id) = 1 THEN << id[1] >>
  ELSE IF Len(id) = 2 THEN << id[1], "-" >> \o Digits(id[2])
  ELSE IF Len(id) = 3 THEN << id[1], "-" >> \o Digits(id[2]) \o << "-" >> \o Digits(id[3])
  ELSE << id[1], "-" >> \o Digits(id[2]) \o << "-" >> \o Digits(id[3])
         \o << "-" >> \o Digits(id[4])

\* C13: in a returned layout the node ids are pairwise distinct, the edge ids are
\* pairwise distinct, and an edge's id is the one its (source, target) pair
\* determines, so two edges with different endpoints never share an id.
C13_IdsAreDistinct ==
  Returned =>
    /\ \A i, j \in 1..Len(genResult.nodes) :
         i # j => IdText(genResult.nodes[i].id) # IdText(genResult.nodes[j].id)
    /\ \A i, j \in 1..Len(genResult.edges) :
         LET e == genResult.edges[i]
             f == genResult.edges[j]
         IN /\ i # j => IdText(e.id) # IdText(f.id)
            /\ IdText(e.id) = << "edge", "-" >> \o IdText(e.source)
                                \o << "-" >> \o IdText(e.target)
            /\ <<e.source, e.target>> # <<f.source, f.target>>
                 => IdText(e.id) # IdText(f.id)

\* a returned layout with two topics that both have key points, and a subtopic
\* with key points: ids that differ in one index only
C13_Witness ==
  /\ Returned
  /\ {<<"kp", 0, 0>>, <<"kp", 0, 1>>, <<"kp", 1, 0>>, <<"sub", 0, 0>>,
      <<"skp", 0, 0, 0>>, <<"skp", 0, 0, 1>>} \subseteq ReturnedIds
  /\ Len(genResult.edges) >= 8

RECURSIVE Concat(_)
\* the concatenation of a sequence of sequences
Concat(ss) == IF ss = <<>> THEN <<>> ELSE Head(ss) \o Concat(Tail(ss))

\* the ids in the claimed order: root, then per topic its node, its key points, then
\* each subtopic followed by that subtopic's key points
ExpectedOrder(h) ==
  << centerId >> \o
  Concat([t \in 1..Len(h.topics) |->
    LET topic == h.topics[t]
    IN << <<"topic", t - 1>> >>
       \o [k \in 1..Len(topic.keyPoints) |-> <<"kp", t - 1, k - 1>>]
       \o Concat([s \in 1..Len(topic.subtopics) |->
            << <<"sub", t - 1, s - 1>> >>
            \o [k \in 1..Len(topic.subtopics[s].keyPoints) |->
                  <<"skp", t - 1, s - 1, k - 1>>]])])

C15_EmptyTopicList ==
  (Arg.topics = <<>> /\ genResult # NotCalled) =>
    /\ genResult.status = "returned"
    /\ Len(genResult.nodes) = 1
    /\ genResult.nodes[1].id = centerId
    /\ genResult.nodes[1].position = [x |-> 0, y |-> 0]
    /\ genResult.edges = <<>>

\* the generator has been called with an empty topic list
C15_Witness ==
  /\ Arg.topics = <<>>
  /\ genResult # NotCalled
  /\ genResult.nodes # <<>>

\* the hierarchy has a topic or subtopic without a title or without keyPoints
Malformed(h) ==
  \E e \in Entries(h) : "title" \notin DOMAIN e \/ "keyPoints" \notin DOMAIN e

\* C17: when a topic or subtopic of the argument has no title or has a keyPoints
\* that is not a sequence, the call signals an error and returns no node/edge
\* result: it never returns a layout with a node built from the malformed entry.
C17_MalformedEntryIsRejected ==
  (Malformed(Arg) /\ genResult # NotCalled) =>
    /\ genResult.status = "TypeError"
    /\ genResult.nodes = <<>>
    /\ genResult.edges = <<>>

(***************************************************************************)
(* Properties of the component showing the hierarchy of A and B            *)
(* (SpecScenario).                                                         *)
(***************************************************************************)

\* the state a load leaves: everything visible, nothing collapsed
FreshlyLoaded(ns, es) ==
  /\ NodeCore(ns) = NodeCore(Layout.nodes)
  /\ EdgeCore(es) = EdgeCore(Layout.edges)
  /\ \A n \in Range(ns) : ~n.hidden /\ ~n.data.isCollapsed
  /\ \A e \in Range(es) : ~e.hidden

\* the number of array positions of s whose element is hidden / not hidden
HiddenCount(s) == Cardinality({i \in 1..Len(s) : s[i].hidden})
VisibleCount(s) == Cardinality({i \in 1..Len(s) : ~s[i].hidden})

\* C18: for topic A (3 key points, 1 subtopic with 2 key points) and topic B
\* (1 key point) generation yields 10 nodes and 9 edges, and after collapsing A
\* through its node callback exactly 6 nodes and 6 edges are hidden and 4 nodes
\* (root, A, B, B's key point) and 3 edges are visible.
C18_CollapseAOfScenario ==
  /\ Len(generateMindMapData(HierScenario).nodes) = 10
  /\ Len(generateMindMapData(HierScenario).edges) = 9
  /\ (/\ Loaded
      /\ summary[1] = HierScenario
      /\ lastOp = [op |-> "toggle", nodeId |-> <<"topic", 0>>,
                   isCurrentlyCollapsed |-> FALSE]
      /\ FreshlyLoaded(before.nodes, before.edges))
     => /\ HiddenCount(nodes) = 6
        /\ HiddenCount(edges) = 6
        /\ {n.id : n \in {m \in Range(nodes) : ~m.hidden}}
             = {centerId, <<"topic", 0>>, <<"topic", 1>>, <<"kp", 1, 0>>}
        /\ VisibleCount(nodes) = 4
        /\ VisibleCount(edges) = 3

(***************************************************************************)
(* Frame of a toggle (Spec).                                               *)
(***************************************************************************)

\* the toggled node and its descendants in the layout of the current hierarchy
Subtree(id) == {id} \cup LayoutDescendants(id)

\* C20: a toggle on node X changes the hidden flag only of descendants of X and of
\* edges whose source is X or a descendant of X; every other node and edge that the
\* collections held before the toggle and hold after it keeps its hidden flag.
C20_ToggleFrame ==
  ToggledByButton =>
    /\ \A n \in Range(nodes), m \in Range(before.nodes) :
         (n.id = m.id /\ n.hidden # m.hidden)
           => n.id \in LayoutDescendants(lastOp.nodeId)
    /\ \A e \in Range(edges), f \in Range(before.edges) :
         (e.id = f.id /\ e.hidden # f.hidden)
           => e.source \in Subtree(lastOp.nodeId)

(***************************************************************************)
(* Where the API key travels (SpecApi).                                    *)
(***************************************************************************)

\* the endpoint of a provider
ProviderHost(p) ==
  IF p = "openai" THEN "api.openai.com" ELSE "generativelanguage.googleapis.com"

\* the config on whose behalf the request r of the last step was made: the one of
\* the submission in flight for a summary request, the one of the test started
\* last for a connection test
ConfigBehind(r) ==
  IF r.kind = "summary" THEN << submit[1].apiConfig >>
  ELSE IF r.kind = "test" THEN << tests[Len(tests)].config >>
  ELSE NoConfig

\* C19: over any sequence of save, test-connection, submit-video and remove
\* operations a request carries an API key only if it is a connection test or a
\* summary request, the key is the one of the config the operation works with, and
\* the host is the endpoint of the provider named in that config; requests for
\* video details and transcripts carry no key.
C19_KeyGoesOnlyToItsProvider ==
  \A i \in 1..Len(sent) :
    LET r == sent[i]
    IN /\ r.kind \in {"details", "transcript"} => r.key = NoKey
       /\ r.key # NoKey =>
            /\ r.kind \in {"test", "summary"}
            /\ ConfigBehind(r) # NoConfig
            /\ r.key = << ConfigBehind(r)[1].apiKey >>
            /\ r.host = ProviderHost(ConfigBehind(r)[1].provider)

\* a summary request carrying a key goes out for a submission whose config has
\* meanwhile been removed and replaced by a config of the other provider
C19_Witness ==
  /\ submit # NoSubmit
  /\ sent = generateSummary(submit[1].apiConfig)
  /\ sent # << >>
  /\ storage # NoConfig
  /\ storage[1].provider # submit[1].apiConfig.provider

(***************************************************************************)
(* Two toggles within one render (SpecBatch).                              *)
(***************************************************************************)

\* the state after toggling the first node of the last batch alone and letting the
\* component render
AfterFirstAlone ==
  handleToggleCollapse(lastOp.nodeId, lastOp.isCurrentlyCollapsed,
                       before.nodes, handlerEdges)

\* the isCollapsed that node id shows in the node array ns
RenderedCollapsed(ns, id) == id \in Collapsed(ns)

\* ... and after then toggling the second node through its button
AfterBothInTurn ==
  handleToggleCollapse(lastOp.secondId,
                       RenderedCollapsed(AfterFirstAlone.nodes, lastOp.secondId),
                       AfterFirstAlone.nodes, handlerEdges)

TravSafe ==
  /\ \A i, j \in 1..Len(call.stack) : i # j => call.stack[i] # call.stack[j]
  /\ call.nodeId \notin call.nodesToUpdate

TravDone == call.pc = "done"

\* C22: the descendant traversal terminates for every finite edge collection, also
\* one with a cycle or with a node that has two incoming edges, puts each node on
\* the work list at most once, and never adds the toggled node itself to the set
\* of nodes to update.
C22_TraversalTerminates == []TravSafe /\ <>TravDone

\* a finished traversal of a collection in which an edge leads back to the toggled
\* node from one of its descendants and a descendant has two incoming edges
C22_Witness ==
  /\ TravDone
  /\ \E e \in Range(call.currentEdges) :
       e.target = call.nodeId /\ e.source \in call.nodesToUpdate
  /\ \E e, f \in Range(call.currentEdges) :
       e.target = f.target /\ e.source # f.source /\ e.target \in call.nodesToUpdate
  /\ Len(call.stack) = 3

(***************************************************************************)
(* Collapse marks against visibility (Spec).                               *)
(***************************************************************************)

\* the node with this id is in the collection and hidden / not hidden
HiddenIn(ns, id) == \E m \in Range(ns) : m.id = id /\ m.hidden
VisibleIn(ns, id) == \E m \in Range(ns) : m.id = id /\ ~m.hidden

\* C23: in every state reached by loading a hierarchy and toggling visible nodes,
\* every visible collapsible node with at least one child is marked collapsed
\* exactly if all its descendants are hidden, and marked expanded exactly if all
\* its children are visible.
C23_CollapsedMatchesVisibility ==
  Loaded =>
    \A n \in Range(nodes) :
      (/\ ~n.hidden
       /\ n.data.isCollapsible
       /\ ChildrenIn(Layout.edges, n.id) # {})
        => /\ n.data.isCollapsed
                <=> \A d \in LayoutDescendants(n.id) : HiddenIn(nodes, d)
           /\ ~n.data.isCollapsed
                <=> \A c \in ChildrenIn(Layout.edges, n.id) : VisibleIn(nodes, c)

(***************************************************************************)
(* Arc subdivision (SpecArc).                                              *)
(***************************************************************************)

\* the offset of the k-th placed sibling from the parent angle
Offset(k) == RatSub(call.angles[k], call.angle)

\* the arc of the group being placed, and half of it
Arc == ArcOf(call.version, call.group)
HalfArc == RatDiv(Arc, RatOfInt(2))

\* -A/2 + i*A/(N-1) in closed form: A*(2i - (N-1)) / (2*(N-1))
ClosedFormOffset(i, n) == Rat(Arc.num * (2 * i - (n - 1)), Arc.den * 2 * (n - 1))

AllPlaced ==
  /\ call.fn = "arc"
  /\ Len(call.angles) = call.total
  /\ UsesHelper(call) => call.keyPointOffsets # << >>

\* C24: a group of N siblings over an arc A centred on the parent angle: N <= 1
\* gives the single offset 0; N > 1 gives the offsets -A/2 + i*A/(N-1), i = 0..N-1,
\* so the first sibling is at -A/2, the last at +A/2, the steps are equal and the
\* offsets are symmetric about 0; for key points, subtopics and subtopic key points.
C24_ArcSubdivision ==
  call.fn = "arc" =>
    LET n == call.total
        placed == Len(call.angles)
    IN /\ n <= 1 =>
            /\ \A k \in 1..placed : Offset(k) = RatOfInt(0)
            /\ call.keyPointOffsets \in {<< >>, << RatOfInt(0) >>}
       /\ n > 1 =>
            /\ \A k \in 1..placed : Offset(k) = ClosedFormOffset(k - 1, n)
            /\ placed >= 1 => Offset(1) = RatNeg(HalfArc)
            /\ placed = n => Offset(n) = HalfArc
            /\ \A k \in 1..(placed - 2) :
                 RatSub(Offset(k + 1), Offset(k)) = RatSub(Offset(k + 2), Offset(k + 1))
            /\ placed = n => \A k \in 1..n : Offset(k) = RatNeg(Offset(n + 1 - k))
            /\ call.keyPointOffsets # << >> =>
                 \A k \in 1..n : call.keyPointOffsets[k] = Offset(k)

\* four key points of a topic placed through calculateOptimalPositions
C24_Witness ==
  /\ AllPlaced
  /\ UsesHelper(call)
  /\ call.total = 4
  /\ Offset(2) = Rat(0 - 7, 60)

(***************************************************************************)
(* Vertical separation of the topic branches (SpecGen).                    *)
(***************************************************************************)

\* the nodes of the branch of topic t: the topic, its key points, its subtopics
\* and their key points (the second component of their ids is t)
BranchNodes(t) ==
  {n \in Range(genResult.nodes) : Len(n.id) >= 2 /\ n.id[2] = t}

\* C25: in the column layout the branches of consecutive topics are vertically
\* disjoint: every node of topic i+1 has a y coordinate strictly greater than the y
\* coordinate of every node of topic i, for any number of key points and subtopics.
C25_TopicBranchesDisjoint ==
  Returned =>
    \A t \in 0..(Len(Arg.topics) - 2) :
      \A n \in BranchNodes(t), m \in BranchNodes(t + 1) :
        m.position.y > n.position.y

(***************************************************************************)
(* Save & Test (SpecApi).                                                  *)
(***************************************************************************)

\* test i in flight was started by handleSave
SaveTest(i) == tests[i].save

\* the form that started test i is the one on the page (it was not unmounted since)
FormOfTest(i) == tests[i].live

\* C26: handleSave writes the key to storage and sets storedConfig only after the
\* connection test of exactly that provider and key returned true; when the test
\* returns false, storage and the storedConfig of the form that ran handleSave stay
\* as they are and onConfigChange(false) is reported.
C26_SaveOnlyAfterSuccessfulTest ==
  [][
     /\ (storage' # storage /\ storage' # NoConfig)
          => \E i \in 1..Len(tests) :
               /\ SaveTest(i)
               /\ TestResponds(i, TRUE)
               /\ storage' = << tests[i].config >>
     /\ (panel'.storedConfig # panel.storedConfig /\ panel'.storedConfig # NoConfig)
          => panel'.storedConfig = storage'
     /\ \A j \in 1..Len(tests) :
           (SaveTest(j) /\ TestResponds(j, FALSE))
             => /\ storage' = storage
                /\ FormOfTest(j) => panel'.storedConfig = panel.storedConfig
                /\ ~index'.hasValidConfig
  ]_vars

\* after Save & Test with a key whose test returned false: nothing is stored, the
\* key is still in the input and the page was told the configuration is invalid
C26_Witness ==
  /\ panel.mounted
  /\ panel.connectionStatus = "failed"
  /\ panel.storedConfig = NoConfig
  /\ panel.apiKey = "key-2"
  /\ panel.provider = "gemini"
  /\ storage = NoConfig
  /\ ~index.hasValidConfig
  /\ tests = << >>

(***************************************************************************)
(* The form whose Save button stays enabled during a test (SpecForm).      *)
(***************************************************************************)

NoTestInFlight == call.fn = "ApiKeyConfiguration" /\ tests = << >>

\* a config is stored and a test of that config has returned true
StoredConfigConfirmed == storage # NoConfig /\ storage[1] \in call.succeeded

\* C27: for every interleaving of the mount-time test, Save, Test Connection and
\* Remove API Key: once no connection test is in flight, connectionStatus =
\* "success" together with a last report onConfigChange(true) holds only if a
\* config is stored and the test of that stored config succeeded.
C27_SuccessMeansStoredConfigTested ==
  (/\ NoTestInFlight
   /\ panel.connectionStatus = "success"
   /\ call.lastReport = "true")
    => StoredConfigConfirmed

(***************************************************************************)
(* Video submissions (SpecApiFair, SpecApi).                               *)
(***************************************************************************)

Loading == index.isLoading

\* C28: every video submission that sets isLoading to true eventually sets it back
\* to false, whether the details and the summary arrive or generateSummary throws;
\* and when it throws, summary stays null.
C28_LoadingEnds ==
  /\ Loading ~> ~Loading
  /\ [][SummaryResponds(FALSE) => (index'.summary = "null" /\ ~index'.isLoading)]_vars

\* a submission whose generateSummary threw: the details are there, no summary,
\* and the page is no longer loading
C28_Witness ==
  /\ ~Loading
  /\ submit = NoSubmit
  /\ index.videoInfo = "video-1"
  /\ index.summary = "null"

\* the results tabs are rendered
ResultsShown ==
  index.summary # "null" /\ index.videoInfo # "null" /\ index.hasValidConfig

\* C29: whenever videoInfo and summary are both non-null they come from the same
\* submission (the same video id); a new submission first clears both, and while
\* one is loading no second one is started.
C29_ResultsOfOneSubmission ==
  /\ (index.videoInfo # "null" /\ index.summary # "null")
       => index.videoInfo = index.summary
  /\ Loading
       => /\ submit # NoSubmit
          /\ index.summary = "null"
          /\ index.videoInfo \in {"null", submit[1].videoId}
  /\ submit # NoSubmit => Loading

\* the results of a submission of the second video are shown
C29_Witness ==
  /\ ResultsShown
  /\ ~Loading
  /\ index.videoInfo = "video-2"
  /\ index.summary = "video-2"

(***************************************************************************)
(* The result of testApiConnection (SpecConn).                             *)
(***************************************************************************)

ConnDone == call.fn = "testApiConnection" /\ call.pc = "done"

\* the models request was answered with an OK response
RequestReturnedOk == call.outcome.kind = "response" /\ call.outcome.ok

\* C30: testApiConnection never rejects; for either provider it resolves to false
\* after a network failure, a non-OK response or an error body; it resolves to true
\* only when the provider's models request returned OK (for Gemini without an error
\* in the body); for any provider other than openai and gemini it resolves to false.
C30_ConnectionTestNeverRejects ==
  ConnDone =>
    /\ call.result.settled = "resolved"
    /\ call.result.value
         => /\ call.config.provider \in Providers
            /\ RequestReturnedOk
            /\ call.config.provider = "gemini" => ~HasError(call.outcome.body)
    /\ (call.config.provider \in Providers /\ ~RequestReturnedOk)
         => ~call.result.value
    /\ (call.config.provider = "gemini" /\ HasError(call.outcome.body))
         => ~call.result.value
    /\ call.config.provider \notin Providers
         => ~call.result.value /\ sent = << >>

\* a Gemini test whose request was answered 200 with an error object in the body
C30_Witness ==
  /\ ConnDone
  /\ call.config.provider = "gemini"
  /\ RequestReturnedOk
  /\ HasError(call.outcome.body)
  /\ call.result = Resolved(FALSE)
====
